---- MODULE Spec2Model ----
(***************************************************************************)
(* Model of src/vocab/vocab.py: the aggregation (count_words), the         *)
(* translation resolver (get_translation with its two providers), the      *)
(* persistent cache (load_cache / save_cache) and the run that ties them   *)
(* together (main).                                                        *)
(*                                                                         *)
(* Strings are sequences of one-character strings.  A JSON value that is   *)
(* not a string, and Python's None, are sequences holding one marker that  *)
(* no text contains, so that every value a variable can hold has one type. *)
(***************************************************************************)
EXTENDS Integers, Sequences, FiniteSets, TLC

\* ---------------------------------------------------------------- bounds
\* longest raw text a provider answers with, in the resolver harness
MaxTextLen == 2
\* longest raw text a provider answers with, in the runs of main
MaxRunTextLen == 1
\* most tokens in an input text
MaxTokens == 2
\* most runs of main over one cache file
MaxRuns == 2
\* most calls of get_translation in the resolver harness
MaxGTCalls == 3

\* ---------------------------------------------------------------- strings
SPACE == " "

\* the characters provider answers are made of
TextChars == {SPACE, "p"}

RECURSIVE SeqsUpTo(_, _)
SeqsUpTo(S, n) ==
    IF n = 0 THEN {<<>>}
    ELSE LET shorter == SeqsUpTo(S, n - 1)
         IN  shorter \cup {Append(s, c) : s \in {t \in shorter : Len(t) = n - 1}, c \in S}

RawTexts(n) == SeqsUpTo(TextChars, n)

RECURSIVE LStrip(_)
LStrip(s) == IF s /= <<>> /\ Head(s) = SPACE THEN LStrip(Tail(s)) ELSE s

RECURSIVE RStrip(_)
RStrip(s) ==
    IF s /= <<>> /\ s[Len(s)] = SPACE THEN RStrip(SubSeq(s, 1, Len(s) - 1)) ELSE s

\* str.strip()
Strip(s) == RStrip(LStrip(s))

\* Python's None
NoneVal == <<"#None">>
\* a JSON leaf that is not a string (number, bool, null, list, object)
NonStr == <<"#NonStr">>
\* the sentinel of get_translation
SENTINEL == <<"X">>
\* the placeholder of the no-translation mode
PLACEHOLDER == <<"-">>

\* truth value of a str-or-None
Truthy(v) == v /= NoneVal /\ v /= <<>>

\* ---------------------------------------------------------------- providers
\* What the DeepL side can do on one call: no client configured, the SDK
\* raises, the result has no .text, or the result carries a text.
DeeplOutcomes(n) ==
    {[kind |-> k, text |-> <<>>] : k \in {"noclient", "raise", "notext"}}
        \cup {[kind |-> "text", text |-> t] : t \in RawTexts(n)}

\* What the MyMemory side can do on one call: requests not installed, the
\* HTTP call raises (timeout, status, bad JSON), the body has no
\* translatedText, or it carries a text.
MyMemoryOutcomes(n) ==
    {[kind |-> k, text |-> <<>>] : k \in {"norequests", "raise", "nodata"}}
        \cup {[kind |-> "text", text |-> t] : t \in RawTexts(n)}

\* translate_with_deepl: every failure is turned into None inside
translate_with_deepl(o) ==
    [exc |-> FALSE,
     val |-> IF o.kind = "text" THEN Strip(o.text) ELSE NoneVal]

\* translate_with_mymemory: an HTTP failure propagates to the caller
translate_with_mymemory(o) ==
    IF o.kind = "raise" THEN [exc |-> TRUE, val |-> NoneVal]
    ELSE IF o.kind = "text" /\ o.text /= <<>>
         THEN [exc |-> FALSE, val |-> Strip(o.text)]
         ELSE [exc |-> FALSE, val |-> NoneVal]

\* ---------------------------------------------------------------- cache slices
\* The value stored under a language tag.  kind "map" is a JSON object
\* (m: key -> leaf); kind "seq" is a JSON list or string (has: the keys for
\* which Python's `in` answers True); kind "scalar" is a number, bool or null.
EmptyMap == [x \in {} |-> <<>>]

MapSlice(f) == [kind |-> "map", m |-> f, has |-> {}]
SeqSlice(S) == [kind |-> "seq", m |-> EmptyMap, has |-> S]
ScalarSlice == [kind |-> "scalar", m |-> EmptyMap, has |-> {}]

\* mutant of Contains: the cache is never consulted
ContainsNever(lang_cache, norm_key) == FALSE

\* `norm_key in lang_cache`; raises TypeError on a scalar
Contains(lang_cache, norm_key) ==
    CASE lang_cache.kind = "map" -> norm_key \in DOMAIN lang_cache.m
      [] lang_cache.kind = "seq" -> norm_key \in lang_cache.has
      [] OTHER -> FALSE

\* `lang_cache[norm_key] = value`; only a dict supports it
CanStore(lang_cache) == lang_cache.kind = "map"

Store(lang_cache, norm_key, value) ==
    [lang_cache EXCEPT !.m =
        [k \in DOMAIN lang_cache.m \cup {norm_key} |->
            IF k = norm_key THEN value ELSE lang_cache.m[k]]]

GTResult(raised, ret, cache, dcalled, mcalled) ==
    [raised |-> raised, ret |-> ret, cache |-> cache,
     deepl |-> dcalled, mm |-> mcalled]

\* what a call of each provider function can end with
DeeplResults(n) == {translate_with_deepl(o) : o \in DeeplOutcomes(n)}
MyMemoryResults(n) == {translate_with_mymemory(o) : o \in MyMemoryOutcomes(n)}

\* a provider result that counts as a translation: `if result:`
Hit(res) == ~res.exc /\ Truthy(res.val)

\* get_translation, lines 330-334: the stored value; indexing a list or a
\* string with a key raises TypeError
CacheHit(norm_key, lang_cache) ==
    IF lang_cache.kind = "map"
    THEN GTResult(FALSE, lang_cache.m[norm_key], lang_cache, FALSE, FALSE)
    ELSE GTResult(TRUE, NoneVal, lang_cache, FALSE, FALSE)

\* mutant of TryDeepl: the block never returns, whatever DeepL answered
TryDeeplIgnored(norm_key, lang_cache, dres) ==
    [done |-> FALSE, ret |-> NoneVal, cache |-> lang_cache]

\* get_translation, lines 339-354: done tells whether the block returned.
\* A TypeError of the assignment is swallowed by the except clause.
TryDeepl(norm_key, lang_cache, dres) ==
    IF Hit(dres) /\ CanStore(lang_cache)
    THEN [done |-> TRUE, ret |-> dres.val, cache |-> Store(lang_cache, norm_key, dres.val)]
    ELSE [done |-> FALSE, ret |-> NoneVal, cache |-> lang_cache]

\* mutant of TryMyMemory: the result is returned but not cached
TryMyMemoryNoStore(norm_key, lang_cache, mres) ==
    IF Hit(mres) /\ CanStore(lang_cache)
    THEN [done |-> TRUE, ret |-> mres.val, cache |-> lang_cache]
    ELSE [done |-> FALSE, ret |-> NoneVal, cache |-> lang_cache]

\* get_translation, lines 356-371
TryMyMemory(norm_key, lang_cache, mres) ==
    IF Hit(mres) /\ CanStore(lang_cache)
    THEN [done |-> TRUE, ret |-> mres.val, cache |-> Store(lang_cache, norm_key, mres.val)]
    ELSE [done |-> FALSE, ret |-> NoneVal, cache |-> lang_cache]

\* mutant of FinalFallback: the sentinel is returned but not cached
FinalFallbackNoStore(norm_key, lang_cache) ==
    GTResult(FALSE, SENTINEL, lang_cache, TRUE, TRUE)

\* get_translation, lines 373-377: the assignment is outside every try
FinalFallback(norm_key, lang_cache) ==
    IF CanStore(lang_cache)
    THEN GTResult(FALSE, SENTINEL, Store(lang_cache, norm_key, SENTINEL), TRUE, TRUE)
    ELSE GTResult(TRUE, NoneVal, lang_cache, TRUE, TRUE)

\* get_translation(norm_key, original_word, lang, lang_cache): dres and mres
\* are what translate_with_deepl and translate_with_mymemory end with if
\* they are called.  The debug flag only prints and is left out.
get_translation(norm_key, lang_cache, dres, mres) ==
    IF lang_cache.kind = "scalar"
    THEN GTResult(TRUE, NoneVal, lang_cache, FALSE, FALSE)
    ELSE IF Contains(lang_cache, norm_key)
    THEN CacheHit(norm_key, lang_cache)
    ELSE LET d == TryDeepl(norm_key, lang_cache, dres)
         IN  IF d.done
             THEN GTResult(FALSE, d.ret, d.cache, TRUE, FALSE)
             ELSE LET m == TryMyMemory(norm_key, lang_cache, mres)
                  IN  IF m.done
                      THEN GTResult(FALSE, m.ret, m.cache, TRUE, TRUE)
                      ELSE FinalFallback(norm_key, lang_cache)

\* ---------------------------------------------------------------- words
LANGS == {"de", "en", "es"}
TARGET_LANG == "es"

DIGITS == {"1"}

\* str.lower(), one character at a time
LowerChar(c) ==
    CASE c = "A" -> "a"
      [] c = "B" -> "b"
      [] c = "S" -> "s"
      [] c = "E" -> "e"
      [] c = "UML_A" -> "uml_a"
      [] c = "ESZETT" -> "eszett"
      [] OTHER -> c

Lower(s) == [i \in 1..Len(s) |-> LowerChar(s[i])]

\* the chain of str.replace calls for "de"; no replacement produces a
\* character a later one replaces, so the chain acts on each character alone
DeReplaceChar(c) ==
    CASE c = "uml_a" -> <<"a", "e">>
      [] c = "UML_A" -> <<"A", "e">>
      [] c = "eszett" -> <<"s", "s">>
      [] OTHER -> <<c>>

RECURSIVE DeReplace(_)
DeReplace(s) ==
    IF s = <<>> THEN <<>> ELSE DeReplaceChar(Head(s)) \o DeReplace(Tail(s))

normalize_word(word, lang) ==
    LET w == Strip(word)
    IN  IF w = <<>> THEN <<>>
        ELSE IF lang = "de" THEN Lower(DeReplace(w))
        ELSE Lower(w)

contains_number(word) == \E i \in 1..Len(word) : word[i] \in DIGITS

\* the ignore spec handed to count_words
EmptyIgnore == [normalized |-> {}, originals |-> {}]

\* position of the entry of key norm in the insertion-ordered dict, 0 if none
IndexOf(words_data, norm) ==
    IF \E i \in 1..Len(words_data) : words_data[i].norm = norm
    THEN CHOOSE i \in 1..Len(words_data) : words_data[i].norm = norm
    ELSE 0

\* mutant of CountToken: a later token of the key replaces the stored spelling
CountTokenOverwrite(words_data, original, lang, ignore_dict) ==
    LET norm == normalize_word(original, lang)
        i == IndexOf(words_data, norm)
    IN  IF contains_number(original) THEN words_data
        ELSE IF norm = <<>> THEN words_data
        ELSE IF norm \in ignore_dict.normalized THEN words_data
        ELSE IF Lower(original) \in ignore_dict.originals THEN words_data
        ELSE IF i = 0
        THEN Append(words_data, [norm |-> norm, original |-> original, count |-> 1])
        ELSE [words_data EXCEPT ![i].count = @ + 1, ![i].original = original]

\* mutant of CountToken: a token is ignored only if both of its forms match
CountTokenBoth(words_data, original, lang, ignore_dict) ==
    LET norm == normalize_word(original, lang)
        i == IndexOf(words_data, norm)
    IN  IF contains_number(original) THEN words_data
        ELSE IF norm = <<>> THEN words_data
        ELSE IF norm \in ignore_dict.normalized /\ Lower(original) \in ignore_dict.originals
        THEN words_data
        ELSE IF i = 0
        THEN Append(words_data, [norm |-> norm, original |-> original, count |-> 1])
        ELSE [words_data EXCEPT ![i].count = @ + 1]

\* one iteration of the loop of count_words
CountToken(words_data, original, lang, ignore_dict) ==
    LET norm == normalize_word(original, lang)
        i == IndexOf(words_data, norm)
    IN  IF contains_number(original) THEN words_data
        ELSE IF norm = <<>> THEN words_data
        ELSE IF norm \in ignore_dict.normalized THEN words_data
        ELSE IF Lower(original) \in ignore_dict.originals THEN words_data
        ELSE IF i = 0
        THEN Append(words_data, [norm |-> norm, original |-> original, count |-> 1])
        ELSE [words_data EXCEPT ![i].count = @ + 1]

RECURSIVE CountLoop(_, _, _, _)
CountLoop(words_data, tokens, lang, ignore_dict) ==
    IF tokens = <<>> THEN words_data
    ELSE CountLoop(CountToken(words_data, Head(tokens), lang, ignore_dict),
                   Tail(tokens), lang, ignore_dict)

RECURSIVE SumCounts(_)
SumCounts(words_data) ==
    IF words_data = <<>> THEN 0
    ELSE Head(words_data).count + SumCounts(Tail(words_data))

\* mutant of count_words: the considered tokens are counted before filtering
count_words_unfiltered(tokens, lang, ignore_dict) ==
    LET words_data == CountLoop(<<>>, tokens, lang, ignore_dict)
    IN  [words_data |-> words_data,
         total_tokens |-> Len(tokens),
         considered_tokens |-> Len(tokens)]

\* count_words(text, lang, ignore_dict), on the tokens of the text
count_words(tokens, lang, ignore_dict) ==
    LET words_data == CountLoop(<<>>, tokens, lang, ignore_dict)
    IN  [words_data |-> words_data,
         total_tokens |-> Len(tokens),
         considered_tokens |-> SumCounts(words_data)]

\* ---------------------------------------------------------------- output order
\* code point order of the characters of the model
Ord(c) ==
    CASE c = "1" -> 49
      [] c = "A" -> 65
      [] c = "B" -> 66
      [] c = "E" -> 69
      [] c = "S" -> 83
      [] c = "a" -> 97
      [] c = "b" -> 98
      [] c = "e" -> 101
      [] c = "s" -> 115
      [] c = "UML_A" -> 196
      [] c = "eszett" -> 223
      [] c = "uml_a" -> 228
      [] c = "ESZETT" -> 7838
      [] c = SPACE -> 32
      [] OTHER -> 0

\* s < t as Python compares str
RECURSIVE StrLess(_, _)
StrLess(s, t) ==
    IF t = <<>> THEN FALSE
    ELSE IF s = <<>> THEN TRUE
    ELSE IF Ord(Head(s)) /= Ord(Head(t)) THEN Ord(Head(s)) < Ord(Head(t))
    ELSE StrLess(Tail(s), Tail(t))

\* mutant of EntryLess: ties are ordered by the original as spelled
EntryLessCased(a, b) ==
    \/ a.count > b.count
    \/ a.count = b.count /\ StrLess(a.original, b.original)

\* key(a) < key(b) for key = (-count, original.lower())
EntryLess(a, b) ==
    \/ a.count > b.count
    \/ a.count = b.count /\ StrLess(Lower(a.original), Lower(b.original))

\* insert e after every entry that is not greater than it (list.sort is stable)
RECURSIVE InsertSorted(_, _)
InsertSorted(sorted, e) ==
    IF sorted = <<>> THEN <<e>>
    ELSE IF EntryLess(e, Head(sorted)) THEN <<e>> \o sorted
    ELSE <<Head(sorted)>> \o InsertSorted(Tail(sorted), e)

RECURSIVE SortEntries(_)
SortEntries(entries) ==
    IF entries = <<>> THEN <<>>
    ELSE InsertSorted(SortEntries(SubSeq(entries, 1, Len(entries) - 1)),
                      entries[Len(entries)])

\* ---------------------------------------------------------------- cache file
\* cache.json: missing, present but unreadable or not JSON ("garbage"), JSON
\* whose top level is not an object ("nondict"), or a JSON object ("dict",
\* data: language tag -> slice).
EmptyCache == [x \in {} |-> ScalarSlice]
\* a parsed JSON document that is not an object
NonDictData == [x \in {"#nondict"} |-> ScalarSlice]

DiskMissing == [kind |-> "missing", data |-> EmptyCache]
DiskGarbage == [kind |-> "garbage", data |-> EmptyCache]
DiskNonDict == [kind |-> "nondict", data |-> NonDictData]
DiskDict(c) == [kind |-> "dict", data |-> c]

\* cache_path.open("r") and json.load(f)
JsonLoad(d) ==
    IF d.kind = "garbage" THEN [exc |-> TRUE, data |-> EmptyCache]
    ELSE [exc |-> FALSE, data |-> d.data]

\* isinstance(data, dict)
IsDict(data) == data /= NonDictData

\* mutant of load_cache: without the try/except around open and json.load
load_cache_notry(d) ==
    IF d.kind = "missing" THEN [raised |-> FALSE, value |-> EmptyCache]
    ELSE LET j == JsonLoad(d)
         IN  IF j.exc THEN [raised |-> TRUE, value |-> EmptyCache]
             ELSE IF IsDict(j.data) THEN [raised |-> FALSE, value |-> j.data]
             ELSE [raised |-> FALSE, value |-> EmptyCache]

\* mutant of load_cache: without the isinstance(data, dict) test
load_cache_nocheck(d) ==
    IF d.kind = "missing" THEN [raised |-> FALSE, value |-> EmptyCache]
    ELSE LET j == JsonLoad(d)
         IN  IF j.exc THEN [raised |-> FALSE, value |-> EmptyCache]
             ELSE [raised |-> FALSE, value |-> j.data]

\* load_cache(cache_path): raised tells whether an exception leaves the function
load_cache(d) ==
    IF d.kind = "missing" THEN [raised |-> FALSE, value |-> EmptyCache]
    ELSE LET j == JsonLoad(d)
         IN  IF j.exc THEN [raised |-> FALSE, value |-> EmptyCache]
             ELSE IF IsDict(j.data) THEN [raised |-> FALSE, value |-> j.data]
             ELSE [raised |-> FALSE, value |-> EmptyCache]

\* What writing the file can do: it succeeds; open("w") fails (permission
\* denied), the file is untouched; a write fails after open("w") truncated
\* the file (disk full), a prefix of the document is left.
SaveOutcomes == {"ok", "open_fails", "write_fails"}

FileAfterWrite(d, cache, outcome) ==
    CASE outcome = "ok" -> DiskDict(cache)
      [] outcome = "open_fails" -> d
      [] OTHER -> DiskGarbage

\* save_cache(cache_path, cache): every Exception is caught and reported
save_cache(d, cache, outcome) ==
    [raised |-> FALSE,
     warned |-> outcome /= "ok",
     disk |-> FileAfterWrite(d, cache, outcome)]

\* Where an interrupt can hit save_cache: before open("w"), between the
\* truncation and the end of json.dump, or after the document is written.
InterruptPoints == {"before_open", "mid_write", "after_write"}

FileAfterInterrupt(d, cache, point) ==
    CASE point = "before_open" -> d
      [] point = "mid_write" -> DiskGarbage
      [] OTHER -> DiskDict(cache)

\* ---------------------------------------------------------------- state
VARIABLES
    pc,            \* where main is: idle, counted, loaded, fill, translate,
                   \* save, output, and how it ended: nowords, done, aborted,
                   \* crashed
    lang,          \* args.lang
    no_translate,  \* args.no_translate
    words,         \* words_data: insertion-ordered norm -> original, count, meaning
    idx,           \* position of the translation loop in words
    cache,         \* the in-memory cache: language tag -> slice
    disk,          \* cache.json
    shown,         \* the entries format_table rendered, <<>> before that
    runs,          \* runs started so far
    diskAtStart,   \* cache.json when the current run started
    provCalls,     \* calls of translate_with_deepl/_mymemory in the current run
    loads,         \* calls of load_cache in the current run
    saves,         \* calls of save_cache in the current run
    warned,        \* save_cache printed its warning in the current run
    chains,        \* <<lang, key>> -> provider chains started for the key
                   \* since its entry was last lost (never persisted, or
                   \* persisted in a file that was destroyed since)
    slice,         \* resolver harness: the lang_cache under test
    last,          \* resolver harness: the last call and what it returned
    fromSecond,    \* resolver harness: key -> text MyMemory resolved it to
    laterCalls,    \* resolver harness: provider calls for keys of fromSecond
    gtCalls,       \* resolver harness: calls made
    cw,            \* aggregation harness: the input of count_words and its result
    nw             \* normalization harness: a word, normalized once and twice

mainVars == <<pc, lang, no_translate, words, idx, cache, disk, shown, runs,
              diskAtStart, provCalls, loads, saves, warned, chains>>
gtVars == <<slice, last, fromSecond, laterCalls, gtCalls>>
fnVars == <<cw, nw>>
vars == <<pc, lang, no_translate, words, idx, cache, disk, shown, runs,
          diskAtStart, provCalls, loads, saves, warned, chains,
          slice, last, fromSecond, laterCalls, gtCalls, cw, nw>>

\* ---------------------------------------------------------------- inputs
KeyA == <<"a">>
KeyB == <<"b">>
Keys == {KeyA, KeyB}

\* the words input texts are made of
MainWords == {<<"a">>, <<"B">>}
MainTexts == SeqsUpTo(MainWords, MaxTokens)

\* what a cache file left by earlier runs, or damaged since, can hold under
\* one language tag
InitSlices ==
    {MapSlice(EmptyMap),
     MapSlice([k \in {KeyA} |-> <<"p">>]),
     MapSlice([k \in {KeyA} |-> NonStr]),
     SeqSlice({KeyA}),
     SeqSlice({}),
     ScalarSlice}

OtherLangSlice == MapSlice([k \in {KeyB} |-> <<"p", "p">>])

InitDisks ==
    {DiskMissing, DiskGarbage, DiskNonDict, DiskDict(EmptyCache)}
        \cup {DiskDict([l \in {"de"} |-> s]) : s \in InitSlices}
        \cup {DiskDict([l \in {"en"} |-> OtherLangSlice])}
        \cup {DiskDict([l \in {"de", "en"} |->
                            IF l = "de" THEN s ELSE OtherLangSlice]) : s \in InitSlices}

Terminal == {"nowords", "done", "aborted", "crashed"}

no_translate_mode == no_translate \/ lang = TARGET_LANG

NoChains == [lk \in (LANGS \X Keys) |-> 0]

\* the file d holds an entry for key k of language l
Persisted(d, l, k) ==
    /\ d.kind = "dict"
    /\ l \in DOMAIN d.data
    /\ d.data[l].kind = "map"
    /\ k \in DOMAIN d.data[l].m

\* a run ended without saving, or destroyed the file: the chains of the
\* entries that are not in the file d are forgotten with them
Forget(ch, d) ==
    [lk \in DOMAIN ch |-> IF Persisted(d, lk[1], lk[2]) THEN ch[lk] ELSE 0]

Min(a, b) == IF a < b THEN a ELSE b

MainInit ==
    /\ pc = "idle"
    /\ lang = "de"
    /\ no_translate = FALSE
    /\ words = <<>>
    /\ idx = 0
    /\ cache = EmptyCache
    /\ disk \in InitDisks
    /\ shown = <<>>
    /\ runs = 0
    /\ diskAtStart = disk
    /\ provCalls = 0
    /\ loads = 0
    /\ saves = 0
    /\ warned = FALSE
    /\ chains = NoChains

NoCall == [called |-> FALSE, key |-> <<>>, had |-> FALSE,
           dres |-> [exc |-> FALSE, val |-> NoneVal],
           mres |-> [exc |-> FALSE, val |-> NoneVal],
           dhit |-> FALSE, mhit |-> FALSE, mval |-> NoneVal,
           raised |-> FALSE, ret |-> NoneVal, deepl |-> FALSE, mm |-> FALSE]

\* the harnesses of count_words and normalize_word, not started
NoCount == [pc |-> "idle", tokens |-> <<>>, lang |-> "de",
            ignore |-> [normalized |-> {}, originals |-> {}],
            words_data |-> <<>>, total_tokens |-> 0, considered_tokens |-> 0,
            entries |-> <<>>]

NoWord == [pc |-> "idle", word |-> <<>>, lang |-> "de", once |-> <<>>, twice |-> <<>>]

FnIdle ==
    /\ cw = NoCount
    /\ nw = NoWord

GTIdle ==
    /\ slice = MapSlice(EmptyMap)
    /\ last = NoCall
    /\ fromSecond = EmptyMap
    /\ laterCalls = 0
    /\ gtCalls = 0

\* ---------------------------------------------------------------- main
WithMeaning(words_data, meaning) ==
    [i \in 1..Len(words_data) |->
        [norm |-> words_data[i].norm, original |-> words_data[i].original,
         count |-> words_data[i].count, meaning |-> meaning]]

\* main, lines 646-668: arguments, input text, count_words, early return
StartRun(l, nt, tokens) ==
    /\ pc = "idle"
    /\ runs < MaxRuns
    /\ LET counted == count_words(tokens, l, EmptyIgnore)
       IN  /\ words' = WithMeaning(counted.words_data, NoneVal)
           /\ pc' = IF counted.words_data = <<>> THEN "nowords" ELSE "counted"
    /\ lang' = l
    /\ no_translate' = nt
    /\ idx' = 0
    /\ cache' = EmptyCache
    /\ shown' = <<>>
    /\ runs' = runs + 1
    /\ diskAtStart' = disk
    /\ provCalls' = 0
    /\ loads' = 0
    /\ saves' = 0
    /\ warned' = FALSE
    /\ UNCHANGED <<disk, chains>>
    /\ UNCHANGED <<gtVars, fnVars>>

\* main, line 671
MainLoadCache ==
    /\ pc = "counted"
    /\ LET r == load_cache(disk)
       IN  IF r.raised
           THEN pc' = "aborted" /\ cache' = cache
           ELSE pc' = "loaded" /\ cache' = r.value
    /\ loads' = loads + 1
    /\ UNCHANGED <<lang, no_translate, words, idx, disk, shown, runs,
                   diskAtStart, provCalls, saves, warned, chains>>
    /\ UNCHANGED <<gtVars, fnVars>>

\* mutant of EnsureSlice: the slice of the language is emptied on every run
EnsureSliceAlways(c, l) ==
    [x \in DOMAIN c \cup {l} |-> IF x = l THEN MapSlice(EmptyMap) ELSE c[x]]

\* `if lang not in cache: cache[lang] = {}`
EnsureSlice(c, l) ==
    IF l \in DOMAIN c THEN c
    ELSE [x \in DOMAIN c \cup {l} |-> IF x = l THEN MapSlice(EmptyMap) ELSE c[x]]

\* main, lines 672-676
MainEnsureSlice ==
    /\ pc = "loaded"
    /\ cache' = EnsureSlice(cache, lang)
    /\ pc' = IF no_translate_mode THEN "fill" ELSE "translate"
    /\ idx' = 1
    /\ UNCHANGED <<lang, no_translate, words, disk, shown, runs, diskAtStart,
                   provCalls, loads, saves, warned, chains>>
    /\ UNCHANGED <<gtVars, fnVars>>

\* mutant of MainNoTranslate: save_cache follows the if/else instead of
\* closing the else branch
MainNoTranslateThenSave ==
    /\ pc = "fill"
    /\ words' = WithMeaning(words, PLACEHOLDER)
    /\ pc' = "save"
    /\ UNCHANGED <<lang, no_translate, idx, cache, disk, shown, runs,
                   diskAtStart, provCalls, loads, saves, warned, chains>>
    /\ UNCHANGED <<gtVars, fnVars>>

\* main, lines 677-679
MainNoTranslate ==
    /\ pc = "fill"
    /\ words' = WithMeaning(words, PLACEHOLDER)
    /\ pc' = "output"
    /\ UNCHANGED <<lang, no_translate, idx, cache, disk, shown, runs,
                   diskAtStart, provCalls, loads, saves, warned, chains>>
    /\ UNCHANGED <<gtVars, fnVars>>

CallCount(r) == (IF r.deepl THEN 1 ELSE 0) + (IF r.mm THEN 1 ELSE 0)

\* mutant of MainTranslate: save_cache is inside the loop, after each resolution
MainTranslateSaveEach(dres, mres) ==
    /\ pc = "translate"
    /\ idx <= Len(words)
    /\ LET norm == words[idx].norm
           r == get_translation(norm, cache[lang], dres, mres)
           counted == IF r.deepl
                      THEN [chains EXCEPT ![<<lang, norm>>] = Min(@ + 1, 2)]
                      ELSE chains
       IN  /\ provCalls' = provCalls + CallCount(r)
           /\ cache' = [cache EXCEPT ![lang] = r.cache]
           /\ IF r.raised
              THEN /\ pc' = "aborted"
                   /\ chains' = Forget(counted, disk)
                   /\ UNCHANGED <<words, idx>>
              ELSE /\ words' = [words EXCEPT ![idx].meaning = r.ret]
                   /\ idx' = idx + 1
                   /\ pc' = "save"
                   /\ chains' = counted
    /\ UNCHANGED <<lang, no_translate, disk, shown, runs, diskAtStart, loads,
                   saves, warned>>
    /\ UNCHANGED <<gtVars, fnVars>>

\* main, lines 684-687: one iteration of the translation loop
MainTranslate(dres, mres) ==
    /\ pc = "translate"
    /\ idx <= Len(words)
    /\ LET norm == words[idx].norm
           r == get_translation(norm, cache[lang], dres, mres)
           counted == IF r.deepl
                      THEN [chains EXCEPT ![<<lang, norm>>] = Min(@ + 1, 2)]
                      ELSE chains
       IN  /\ provCalls' = provCalls + CallCount(r)
           /\ cache' = [cache EXCEPT ![lang] = r.cache]
           /\ IF r.raised
              THEN /\ pc' = "aborted"
                   /\ chains' = Forget(counted, disk)
                   /\ UNCHANGED <<words, idx>>
              ELSE /\ words' = [words EXCEPT ![idx].meaning = r.ret]
                   /\ idx' = idx + 1
                   /\ pc' = IF idx = Len(words) THEN "save" ELSE "translate"
                   /\ chains' = counted
    /\ UNCHANGED <<lang, no_translate, disk, shown, runs, diskAtStart, loads,
                   saves, warned>>
    /\ UNCHANGED <<gtVars, fnVars>>

\* mutant of MainSaveCache: only the slice of the run's language is written
MainSaveCacheOnlyLang(outcome) ==
    /\ pc = "save"
    /\ LET r == save_cache(disk, [l \in {lang} |-> cache[lang]], outcome)
       IN  /\ disk' = r.disk
           /\ warned' = r.warned
           /\ pc' = IF r.raised THEN "aborted" ELSE "output"
           /\ chains' = Forget(chains, r.disk)
    /\ saves' = saves + 1
    /\ UNCHANGED <<lang, no_translate, words, idx, cache, shown, runs,
                   diskAtStart, provCalls, loads>>
    /\ UNCHANGED <<gtVars, fnVars>>

\* main, line 690
MainSaveCache(outcome) ==
    /\ pc = "save"
    /\ LET r == save_cache(disk, cache, outcome)
       IN  /\ disk' = r.disk
           /\ warned' = r.warned
           /\ pc' = IF r.raised THEN "aborted" ELSE "output"
           /\ chains' = Forget(chains, r.disk)
    /\ saves' = saves + 1
    /\ UNCHANGED <<lang, no_translate, words, idx, cache, shown, runs,
                   diskAtStart, provCalls, loads>>
    /\ UNCHANGED <<gtVars, fnVars>>

\* the entries list of lines 693-698
Entries(words_data) == SortEntries(words_data)

\* format_table: re.sub raises TypeError on a meaning that is not a str
FormatTableRaises(entries) ==
    \E i \in 1..Len(entries) : entries[i].meaning = NonStr

\* main, lines 692-706
MainOutput ==
    /\ pc = "output"
    /\ LET entries == Entries(words)
       IN  IF FormatTableRaises(entries)
           THEN pc' = "aborted" /\ shown' = <<>>
           ELSE pc' = "done" /\ shown' = entries
    /\ UNCHANGED <<lang, no_translate, words, idx, cache, disk, runs,
                   diskAtStart, provCalls, loads, saves, warned, chains>>
    /\ UNCHANGED <<gtVars, fnVars>>

\* an interrupt (Ctrl-C, kill) outside save_cache ends the run where it is
Interrupt ==
    /\ pc \in {"counted", "loaded", "fill", "translate", "output"}
    /\ pc' = "crashed"
    /\ chains' = Forget(chains, disk)
    /\ UNCHANGED <<lang, no_translate, words, idx, cache, disk, shown, runs,
                   diskAtStart, provCalls, loads, saves, warned>>
    /\ UNCHANGED <<gtVars, fnVars>>

\* an interrupt inside save_cache: KeyboardInterrupt is no Exception, so it
\* leaves save_cache and main
InterruptSave(point) ==
    /\ pc = "save"
    /\ disk' = FileAfterInterrupt(disk, cache, point)
    /\ pc' = "crashed"
    /\ saves' = saves + 1
    /\ chains' = Forget(chains, disk')
    /\ UNCHANGED <<lang, no_translate, words, idx, cache, shown, runs,
                   diskAtStart, provCalls, loads, warned>>
    /\ UNCHANGED <<gtVars, fnVars>>

\* the process ends: its memory is gone, cache.json stays
Exit ==
    /\ pc \in Terminal
    /\ pc' = "idle"
    /\ lang' = "de"
    /\ no_translate' = FALSE
    /\ words' = <<>>
    /\ idx' = 0
    /\ cache' = EmptyCache
    /\ shown' = <<>>
    /\ diskAtStart' = disk
    /\ provCalls' = 0
    /\ loads' = 0
    /\ saves' = 0
    /\ warned' = FALSE
    /\ UNCHANGED <<disk, runs, chains>>
    /\ UNCHANGED <<gtVars, fnVars>>

StartRunAny ==
    \E l \in LANGS, nt \in BOOLEAN, tokens \in MainTexts : StartRun(l, nt, tokens)
MainTranslateAny ==
    \E dres \in DeeplResults(MaxRunTextLen), mres \in MyMemoryResults(MaxRunTextLen) :
        MainTranslate(dres, mres)
MainSaveCacheAny == \E outcome \in SaveOutcomes : MainSaveCache(outcome)
InterruptSaveAny == \E point \in InterruptPoints : InterruptSave(point)

Init == MainInit /\ GTIdle /\ FnIdle

Next ==
    \/ StartRunAny
    \/ MainLoadCache
    \/ MainEnsureSlice
    \/ MainNoTranslate
    \/ MainTranslateAny
    \/ MainSaveCacheAny
    \/ MainOutput
    \/ Interrupt
    \/ InterruptSaveAny
    \/ Exit

Spec == Init /\ [][Next]_vars

\* ---------------------------------------------------------------- resolver harness
\* get_translation called again and again on one lang_cache dict, with the
\* providers answering whatever they can answer.

\* the dicts the harness starts from
GTInitSlices ==
    {MapSlice(EmptyMap),
     MapSlice([k \in {KeyA} |-> <<"p">>]),
     MapSlice([k \in {KeyA} |-> NonStr]),
     MapSlice([k \in Keys |-> IF k = KeyA THEN SENTINEL ELSE <<"p">>])}

\* a provider function that raises (get_translation wraps both calls in try)
Raised == [exc |-> TRUE, val |-> NoneVal]

MainIdle ==
    /\ pc = "idle"
    /\ lang = "de"
    /\ no_translate = FALSE
    /\ words = <<>>
    /\ idx = 0
    /\ cache = EmptyCache
    /\ disk = DiskMissing
    /\ shown = <<>>
    /\ runs = 0
    /\ diskAtStart = DiskMissing
    /\ provCalls = 0
    /\ loads = 0
    /\ saves = 0
    /\ warned = FALSE
    /\ chains = NoChains

GTInit ==
    /\ slice \in GTInitSlices
    /\ last = NoCall
    /\ fromSecond = EmptyMap
    /\ laterCalls = 0
    /\ gtCalls = 0

\* one call get_translation(norm_key, ..., slice)
GTCall(norm_key, dres, mres) ==
    /\ gtCalls < MaxGTCalls
    /\ LET r == get_translation(norm_key, slice, dres, mres)
           had == norm_key \in DOMAIN slice.m
           fallback == ~had /\ ~Hit(dres) /\ Hit(mres)
       IN  /\ slice' = r.cache
           /\ last' = [called |-> TRUE, key |-> norm_key, had |-> had,
                       dres |-> dres, mres |-> mres,
                       dhit |-> Hit(dres), mhit |-> Hit(mres),
                       mval |-> IF Hit(mres) THEN mres.val ELSE NoneVal,
                       raised |-> r.raised, ret |-> r.ret,
                       deepl |-> r.deepl, mm |-> r.mm]
           /\ fromSecond' =
                IF fallback
                THEN [k \in DOMAIN fromSecond \cup {norm_key} |->
                        IF k = norm_key THEN mres.val ELSE fromSecond[k]]
                ELSE fromSecond
           /\ laterCalls' =
                IF norm_key \in DOMAIN fromSecond
                THEN Min(laterCalls + CallCount(r), 2)
                ELSE laterCalls
    /\ gtCalls' = gtCalls + 1
    /\ UNCHANGED <<mainVars, fnVars>>

GTCallAny ==
    \E norm_key \in Keys,
       dres \in DeeplResults(MaxTextLen) \cup {Raised},
       mres \in MyMemoryResults(MaxTextLen) :
        GTCall(norm_key, dres, mres)

InitGT == MainIdle /\ GTInit /\ FnIdle

NextGT == GTCallAny

SpecGT == InitGT /\ [][NextGT]_vars

\* ---------------------------------------------------------------- claims on get_translation
\* C1: when the key is absent from the slice, DeepL misses and MyMemory
\* answers a non-empty text, get_translation returns that text and the slice
\* maps the key to it; every later call for that key returns it again and
\* calls no provider.
C1_FallbackOrder ==
    /\ (last.called /\ ~last.had /\ ~last.dhit /\ last.mhit) =>
          /\ ~last.raised
          /\ last.ret = last.mval
          /\ last.deepl /\ last.mm
          /\ last.key \in DOMAIN slice.m
          /\ slice.m[last.key] = last.mval
    /\ \A k \in DOMAIN fromSecond :
          k \in DOMAIN slice.m /\ slice.m[k] = fromSecond[k]
    /\ laterCalls = 0
    /\ (last.called /\ last.had /\ last.key \in DOMAIN fromSecond) =>
          /\ ~last.raised
          /\ last.ret = fromSecond[last.key]
          /\ ~last.deepl /\ ~last.mm

\* a later call for a key MyMemory resolved, made while DeepL would answer
C1_Witness ==
    /\ last.called /\ last.had /\ last.dhit
    /\ last.key \in DOMAIN fromSecond
    /\ last.ret = fromSecond[last.key]

\* C2: when the key is absent from the slice and both providers miss,
\* get_translation returns "X" and the slice maps the key to "X".
C2_TotalFailure ==
    (last.called /\ ~last.had /\ ~last.dhit /\ ~last.mhit) =>
        /\ ~last.raised
        /\ last.ret = SENTINEL
        /\ last.key \in DOMAIN slice.m
        /\ slice.m[last.key] = SENTINEL

C2_Witness ==
    /\ last.called /\ ~last.had /\ ~last.dhit /\ ~last.mhit
    /\ last.deepl /\ last.mm
    /\ last.ret = SENTINEL

\* a provider call that ended with a non-empty text
Answered(res) == ~res.exc /\ res.val \notin {NoneVal, NonStr, <<>>}

\* C16: for a key absent from the slice and every pair of provider outcomes,
\* get_translation does not raise and returns a non-empty string: DeepL's
\* text if DeepL answered one, else MyMemory's if it answered one, else "X".
\* DeepL is called, MyMemory is called exactly when DeepL missed, and the
\* slice maps the key to the returned value.
C16_TotalOverOutcomes ==
    (last.called /\ ~last.had) =>
        /\ ~last.raised
        /\ last.ret \notin {NoneVal, NonStr, <<>>}
        /\ last.ret = IF Answered(last.dres) THEN last.dres.val
                      ELSE IF Answered(last.mres) THEN last.mres.val
                      ELSE SENTINEL
        /\ last.deepl
        /\ last.mm <=> ~Answered(last.dres)
        /\ last.key \in DOMAIN slice.m
        /\ slice.m[last.key] = last.ret

\* DeepL answers while MyMemory would raise: MyMemory is not called
C16_Witness ==
    /\ last.called /\ ~last.had
    /\ Answered(last.dres)
    /\ last.mres.exc
    /\ last.deepl /\ ~last.mm
    /\ last.ret = last.dres.val

\* C6: a call of get_translation never changes or removes the value of a key
\* that is in the slice; it writes at most the key it was called for, and
\* only if that key was absent.
C6_AppendOnly ==
    [][/\ \A k \in DOMAIN slice.m :
            k \in DOMAIN slice'.m /\ slice'.m[k] = slice.m[k]
       /\ DOMAIN slice'.m \subseteq DOMAIN slice.m \cup {last'.key}]_vars

\* a call for a stored key, made while DeepL would answer something
C6_Witness ==
    /\ last.called /\ last.had /\ last.dhit
    /\ gtCalls >= 2
    /\ last.ret = slice.m[last.key]

\* ---------------------------------------------------------------- claims on main
\* the keys of words resolved so far that cache.json held when the run started
ResolvedFromFile ==
    {i \in 1..Len(words) : i < idx /\ Persisted(diskAtStart, lang, words[i].norm)}

ResolvedFresh ==
    {i \in 1..Len(words) : i < idx /\ ~Persisted(diskAtStart, lang, words[i].norm)}

\* C3: over the runs that share a cache file, a provider chain starts at most
\* once for a key as long as its entry is not lost (chains never exceeds 1);
\* within a run a key the file held gets the stored value, and providers
\* are called only for the keys the file did not hold.
C3_AtMostOneChain ==
    /\ \A lk \in DOMAIN chains : chains[lk] <= 1
    /\ pc \in {"translate", "save", "output", "done"} =>
          /\ \A i \in ResolvedFromFile :
                words[i].meaning = diskAtStart.data[lang].m[words[i].norm]
          /\ provCalls <= 2 * Cardinality(ResolvedFresh)

\* a second run that resolved a key of the first run without any provider call
C3_Witness ==
    /\ runs = 2
    /\ pc = "done"
    /\ ~no_translate /\ lang = "de"
    /\ provCalls = 0
    /\ chains[<<"de", KeyA>>] = 1

\* C4: in no-translation mode (--no-translate, or lang "es") every entry gets
\* the meaning "-", no provider is called, get_translation and save_cache do
\* not run and cache.json is unchanged.
C4_NoTranslationMode ==
    ((no_translate \/ lang = "es") /\ pc \notin {"idle", "nowords"}) =>
        /\ provCalls = 0
        /\ saves = 0
        /\ disk = diskAtStart
        /\ pc \notin {"translate", "save", "aborted"}
        /\ pc \in {"output", "done"} =>
              \A i \in 1..Len(words) : words[i].meaning = PLACEHOLDER
        /\ pc = "done" =>
              /\ Len(shown) = Len(words)
              /\ \A i \in 1..Len(shown) : shown[i].meaning = PLACEHOLDER

C4_Witness ==
    /\ lang = "es" /\ ~no_translate
    /\ pc = "done"
    /\ Len(shown) = 2
    /\ diskAtStart.kind = "dict"

\* C5 as stated: in no-translation mode the cache file is not read and the
\* in-memory cache structure is not created.
C5_NoCacheInteraction ==
    ((no_translate \/ lang = "es") /\ pc \notin {"idle", "nowords"}) =>
        /\ loads = 0
        /\ cache = EmptyCache

\* what a file leaves in memory after lines 671-674 of a run for language l
FileSlices(d) == IF d.kind = "dict" THEN DOMAIN d.data ELSE {}

\* C5 amended: in no-translation mode load_cache is called exactly once, the
\* in-memory cache is the content of the file (nothing, if the file is
\* missing or unusable) with an empty slice added for the language when the
\* file has none, it is not modified after that, and the file is not written.
C5_CacheReadNotWritten ==
    ((no_translate \/ lang = "es") /\ pc \in {"fill", "output", "done"}) =>
        /\ loads = 1
        /\ saves = 0
        /\ disk = diskAtStart
        /\ DOMAIN cache = FileSlices(diskAtStart) \cup {lang}
        /\ \A l \in DOMAIN cache :
              cache[l] = IF l \in FileSlices(diskAtStart)
                         THEN diskAtStart.data[l]
                         ELSE MapSlice(EmptyMap)

C5_Witness ==
    /\ no_translate /\ lang = "de"
    /\ pc = "done"
    /\ loads = 1
    /\ FileSlices(diskAtStart) = {"en"}
    /\ DOMAIN cache = {"de", "en"}

\* C7: after an interrupted run every entry the file held when the run
\* started is still in the file, with its value.
C7_CrashKeepsFile ==
    pc = "crashed" =>
        \A l \in LANGS, k \in Keys :
            Persisted(diskAtStart, l, k) =>
                /\ Persisted(disk, l, k)
                /\ disk.data[l].m[k] = diskAtStart.data[l].m[k]

\* the file has the shape language tag -> (key -> string)
WellFormed(d) ==
    /\ d.kind = "dict"
    /\ \A l \in DOMAIN d.data :
          /\ d.data[l].kind = "map"
          /\ \A k \in DOMAIN d.data[l].m : d.data[l].m[k] /= NonStr

\* C8: a run that starts on a file that exists and has not that shape does
\* not abort.
C8_CorruptionNotFatal ==
    (diskAtStart.kind /= "missing" /\ ~WellFormed(diskAtStart)) => pc /= "aborted"

\* C9: load_cache raises nothing (no run aborts before line 672) and returns
\* the parsed object if the file holds a JSON object, an empty dict otherwise.
C9_LoadCacheTotal ==
    /\ ~(pc = "aborted" /\ idx = 0)
    /\ pc = "loaded" =>
          cache = IF disk.kind = "dict" THEN disk.data ELSE EmptyCache

C9_Witness ==
    /\ pc = "loaded"
    /\ disk.kind = "garbage"
    /\ cache = EmptyCache

\* C10: when save_cache could not write the file the run does not abort, and
\* it ends having shown every entry, sorted, with the meanings resolved.
C10_SaveFailureNotFatal ==
    warned =>
        /\ pc /= "aborted"
        /\ pc = "done" => shown = SortEntries(words)

\* C17: in a run cache.json is read at most once and written at most once;
\* save_cache starts only when get_translation has returned for every key of
\* the aggregation, no resolution follows it, and it never starts in
\* no-translation mode or when no word is left after filtering.
C17_PersistenceOrder ==
    /\ loads <= 1
    /\ saves <= 1
    /\ saves >= 1 =>
          /\ loads = 1
          /\ ~(no_translate \/ lang = "es")
          /\ words /= <<>>
          /\ idx = Len(words) + 1
          /\ \A i \in 1..Len(words) : words[i].meaning /= NoneVal
    /\ (pc = "translate" /\ idx > 1) => saves = 0

\* a run of two keys that has written the file, once, after both resolutions
C17_Witness ==
    /\ pc = "output"
    /\ loads = 1
    /\ saves = 1
    /\ Len(words) = 2
    /\ idx = 3
    /\ provCalls > 0

\* save_cache has returned without a warning in this run
SavedOk == saves = 1 /\ ~warned /\ pc \in {"output", "done", "aborted"}

\* C18: after a translating run for a language whose save_cache succeeded,
\* cache.json holds for every other language tag exactly the entries it held
\* when the run started (no tag gained, none lost, no entry changed), and for
\* the run's language every entry it held, with the same value.
C18_OtherSlicesPreserved ==
    SavedOk =>
        /\ disk.kind = "dict"
        /\ DOMAIN disk.data \ {lang} = FileSlices(diskAtStart) \ {lang}
        /\ \A l \in FileSlices(diskAtStart) \ {lang} :
              disk.data[l] = diskAtStart.data[l]
        /\ lang \in DOMAIN disk.data
        /\ disk.data[lang].kind = "map"
        /\ lang \in FileSlices(diskAtStart) =>
              /\ diskAtStart.data[lang].kind = "map"
              /\ \A k \in DOMAIN diskAtStart.data[lang].m :
                    /\ k \in DOMAIN disk.data[lang].m
                    /\ disk.data[lang].m[k] = diskAtStart.data[lang].m[k]

\* a run for de that added key b to a file holding de: a and an en slice
C18_Witness ==
    /\ SavedOk
    /\ lang = "de"
    /\ diskAtStart.kind = "dict"
    /\ DOMAIN diskAtStart.data = {"de", "en"}
    /\ DOMAIN diskAtStart.data["de"].m = {KeyA}
    /\ DOMAIN disk.data["de"].m = {KeyA, KeyB}
    /\ disk.data["en"] = OtherLangSlice

\* ---------------------------------------------------------------- aggregation harness
\* count_words applied to a text, a language and an ignore spec

\* the tokens texts are made of: case variants, an umlaut and its
\* transliteration, the capital sharp s, a token with a digit
CWWords ==
    {<<"a">>, <<"A">>, <<"uml_a">>, <<"a", "e">>, <<"b">>, <<"B">>, <<"ESZETT">>,
     <<"a", "1">>}

MaxCountTokens == 3

CWTexts == SeqsUpTo(CWWords, MaxCountTokens)

\* the lines an ignore file is made of
IgnoreLines == {<<"a">>, <<"uml_a">>, <<"eszett">>}

\* load_ignore_words, lines 210-229: each non-empty stripped line gives its
\* lowercase literal and, if not empty, its normalized form
load_ignore_words(file_lines, l) ==
    LET ws == {Strip(line) : line \in file_lines} \ {<<>>}
    IN  [normalized |-> {normalize_word(w, l) : w \in ws} \ {<<>>},
         originals |-> {Lower(w) : w \in ws}]

CWInit ==
    cw \in {[pc |-> "input", tokens |-> t, lang |-> l,
             ignore |-> load_ignore_words(f, l),
             words_data |-> <<>>, total_tokens |-> 0, considered_tokens |-> 0,
             entries |-> <<>>] :
                t \in CWTexts, l \in LANGS, f \in SUBSET IgnoreLines}

\* words_data, total_tokens, considered_tokens = count_words(text, lang, ignore_dict)
CWCount ==
    /\ cw.pc = "input"
    /\ LET r == count_words(cw.tokens, cw.lang, cw.ignore)
       IN  cw' = [cw EXCEPT !.pc = "done",
                            !.words_data = r.words_data,
                            !.total_tokens = r.total_tokens,
                            !.considered_tokens = r.considered_tokens]
    /\ UNCHANGED <<mainVars, gtVars, nw>>

InitCW == MainIdle /\ GTIdle /\ CWInit /\ nw = NoWord

\* main, lines 693-698: the entry list, built from words_data and sorted
CWEntries ==
    /\ cw.pc = "done"
    /\ cw' = [cw EXCEPT !.pc = "sorted",
                        !.entries = Entries(WithMeaning(cw.words_data, NoneVal))]
    /\ UNCHANGED <<mainVars, gtVars, nw>>

NextCW ==
    \/ CWCount
    \/ CWEntries

SpecCW == InitCW /\ [][NextCW]_vars

\* ---------------------------------------------------------------- claims on count_words
\* the key of the j-th token of the input
TokenKey(j) == normalize_word(cw.tokens[j], cw.lang)

\* the j-th token matches the ignore spec by its key or by its lowercase literal
TokenIgnored(j) ==
    \/ TokenKey(j) \in cw.ignore.normalized
    \/ Lower(cw.tokens[j]) \in cw.ignore.originals

TokenHasDigit(j) == \E i \in 1..Len(cw.tokens[j]) : cw.tokens[j][i] \in DIGITS

\* the positions of the tokens that are to be counted under key k
KeptAt(k) ==
    {j \in 1..Len(cw.tokens) : ~TokenHasDigit(j) /\ ~TokenIgnored(j) /\ TokenKey(j) = k}

RECURSIVE SumOver(_, _)
SumOver(wd, n) == IF n = 0 THEN 0 ELSE wd[n].count + SumOver(wd, n - 1)

\* C11: the counts of the result add up to considered_tokens, every count is
\* at least 1, and considered_tokens <= total_tokens = the number of tokens.
C11_CountInvariant ==
    cw.pc = "done" =>
        /\ SumOver(cw.words_data, Len(cw.words_data)) = cw.considered_tokens
        /\ \A i \in 1..Len(cw.words_data) : cw.words_data[i].count >= 1
        /\ cw.considered_tokens <= cw.total_tokens
        /\ cw.total_tokens = Len(cw.tokens)

\* a text of which one token is dropped and one is counted
C11_Witness ==
    /\ cw.pc = "done"
    /\ cw.total_tokens = 3
    /\ cw.considered_tokens = 2
    /\ Len(cw.words_data) = 1

\* C12: the original of every entry is the spelling of the first counted
\* token of its key; later tokens of the key do not replace it.
C12_FirstSeen ==
    cw.pc = "done" =>
        \A i \in 1..Len(cw.words_data) :
            LET e == cw.words_data[i]
            IN  /\ KeptAt(e.norm) /= {}
                /\ \E j \in KeptAt(e.norm) :
                      /\ \A j2 \in KeptAt(e.norm) : j <= j2
                      /\ e.original = cw.tokens[j]

\* two spellings of one key: the entry keeps the first and counts both
C12_Witness ==
    /\ cw.pc = "done"
    /\ cw.tokens = << <<"A">>, <<"a">> >>
    /\ Len(cw.words_data) = 1
    /\ cw.words_data[1].original = <<"A">>
    /\ cw.words_data[1].count = 2

\* C13: a token whose key is in the normalized set or whose lowercase literal
\* is in the literal set adds nothing to the result (no entry, no count);
\* a token that matches neither and has no digit is counted.
C13_IgnoreUnion ==
    cw.pc = "done" =>
        /\ \A i \in 1..Len(cw.words_data) :
              cw.words_data[i].count = Cardinality(KeptAt(cw.words_data[i].norm))
        /\ \A j \in 1..Len(cw.tokens) :
              (~TokenHasDigit(j) /\ ~TokenIgnored(j)) =>
                  \E i \in 1..Len(cw.words_data) : cw.words_data[i].norm = TokenKey(j)
        /\ \A i, i2 \in 1..Len(cw.words_data) :
              cw.words_data[i].norm = cw.words_data[i2].norm => i = i2

\* a token ignored by its key alone next to one ignored by its literal alone
C13_Witness ==
    /\ cw.pc = "done"
    /\ Len(cw.tokens) = 2
    /\ TokenKey(1) \in cw.ignore.normalized
    /\ Lower(cw.tokens[1]) \notin cw.ignore.originals
    /\ TokenKey(2) \notin cw.ignore.normalized
    /\ Lower(cw.tokens[2]) \in cw.ignore.originals
    /\ cw.words_data = <<>>

\* C15: the entry list holds each key of the aggregation exactly once, and of
\* two adjacent entries a, b either a.count > b.count, or the counts are
\* equal and lower(a.original) <= lower(b.original).
C15_OutputOrder ==
    cw.pc = "sorted" =>
        /\ Len(cw.entries) = Len(cw.words_data)
        /\ \A i \in 1..Len(cw.words_data) :
              Cardinality({j \in 1..Len(cw.entries) :
                              /\ cw.entries[j].norm = cw.words_data[i].norm
                              /\ cw.entries[j].original = cw.words_data[i].original
                              /\ cw.entries[j].count = cw.words_data[i].count}) = 1
        /\ \A j \in 1..(Len(cw.entries) - 1) :
              LET a == cw.entries[j]
                  b == cw.entries[j + 1]
              IN  \/ a.count > b.count
                  \/ /\ a.count = b.count
                     /\ ~StrLess(Lower(b.original), Lower(a.original))

\* the word seen second is the more frequent one and comes first
C15_Witness ==
    /\ cw.pc = "sorted"
    /\ cw.tokens = << <<"b">>, <<"a">>, <<"a">> >>
    /\ Len(cw.entries) = 2
    /\ cw.entries[1] = [norm |-> <<"a">>, original |-> <<"a">>, count |-> 2,
                        meaning |-> NoneVal]

\* ---------------------------------------------------------------- normalization harness
\* normalize_word applied to a word, then to its own result

MaxWordLen == 2

SUPPORTED_LANGS == {"de", "en", "pt", "it", "es"}

\* letters in both cases, the umlaut and the sharp s in both cases, a blank
NWChars == {"a", "A", "uml_a", "UML_A", "eszett", "ESZETT", SPACE}

NWWords == SeqsUpTo(NWChars, MaxWordLen)

NWInit ==
    nw \in {[pc |-> "input", word |-> w, lang |-> l, once |-> <<>>, twice |-> <<>>] :
                w \in NWWords, l \in SUPPORTED_LANGS}

\* norm = normalize_word(word, lang)
NWOnce ==
    /\ nw.pc = "input"
    /\ nw' = [nw EXCEPT !.pc = "once", !.once = normalize_word(nw.word, nw.lang)]
    /\ UNCHANGED <<mainVars, gtVars, cw>>

\* normalize_word(norm, lang), the key of the key
NWTwice ==
    /\ nw.pc = "once"
    /\ nw' = [nw EXCEPT !.pc = "twice", !.twice = normalize_word(nw.once, nw.lang)]
    /\ UNCHANGED <<mainVars, gtVars, cw>>

InitNW == MainIdle /\ GTIdle /\ cw = NoCount /\ NWInit

NextNW ==
    \/ NWOnce
    \/ NWTwice

SpecNW == InitNW /\ [][NextNW]_vars

\* C14: normalizing a normalized key again, in the same language, gives the
\* same key.
C14_Idempotent ==
    nw.pc = "twice" => nw.twice = nw.once

====
